---- MODULE Spec2Model ----
(***************************************************************************)
(* The file-copy validator (file-copy-validator.py): a sweep over a list   *)
(* of S3 objects, fresh from a listing or resumed from a previous report.  *)
(*                                                                         *)
(* Text is modelled as a sequence of tokens, so that concatenation is \o   *)
(* and str.endswith is a comparison of the tail.  A CSV cell holds text:   *)
(* an integer written to the report is read back as text (IntText/int).    *)
(*                                                                         *)
(* The storage service is the environment.  With env = "live" every call   *)
(* may return any response (objects change or disappear, the network       *)
(* fails, at any moment).  With env = "frozen" every call is answered from *)
(* the fixed contents `store`.                                             *)
(*                                                                         *)
(* The other scripts of the repository follow, each with its own state     *)
(* variable (a record of the script's variables or the object's fields),   *)
(* its own initial state and next-state relation: the manifest checksum    *)
(* script (file-integrity-testing.py, SpecIntegrity), the bucket           *)
(* comparator (bucket_comparator.py, SpecComparator), the IndexD tester    *)
(* (indexd_tester.py, SpecIndexd), and the patient bookkeeping of the      *)
(* MATCH manifest and metadata validators (SpecManifest, SpecMetadata).    *)
(* While one script runs the variables of the others keep their idle      *)
(* values.                                                                 *)
(***************************************************************************)
EXTENDS Integers, Sequences, FiniteSets, TLC

\* ------------------------------------------------------------- bounds
MaxFiles == 2        \* most objects a listing returns
MaxGen == 3          \* resumed invocations counted in a frozen chain
MaxMixed == 2        \* most rows of a previous report that names several buckets
MaxRows == 3         \* most rows a checksum manifest has
MaxChunks == 3       \* most chunks a response body arrives in
MaxManifestRows == 6 \* most rows a MATCH file manifest has
MaxCases == 2        \* most cases the metadata API returns

\* ---------------------------------------------------------- constants
SUCCEEDED == "Succeeded"
FAILED == "Failed"
tmp_folder == "tmp"
PREVIOUSE_VALIDATED == <<": in previous validation">>
fieldnames == <<"src_bucket", "dest_bucket", "file_name", "file_size", "result", "reason">>

\* ------------------------------------------------------- value domains
Keys == 1..MaxFiles
ETags == {"e1", "e2"}
Sizes == {1, 2}
Contents == {"c1", "c2", "c3"}
BucketPairs == {<<"src-bucket", "dest-bucket">>}
Buckets == {"src-bucket", "dest-bucket"}

Range(s) == {s[i] : i \in 1..Len(s)}
Min(a, b) == IF a < b THEN a ELSE b

\* str.endswith
endswith(s, suffix) ==
    /\ Len(s) >= Len(suffix)
    /\ SubSeq(s, Len(s) - Len(suffix) + 1, Len(s)) = suffix

\* a number as the text csv writes, and int() of that text
IntText(n) == <<"int", n>>
\* line 165, mutated: the recorded size is read as zero
intZero(text) == 0
int(text) == text[2]

\* key.split('/')[-1]: the keys of the model have no '/' in them
basename(key) == key

\* get_md5 of a local file with this content (c1 and c3 collide)
MD5(body) == CASE body = "c1" -> "d1"
               [] body = "c2" -> "d2"
               [] body = "c3" -> "d1"

\* the size of an object with this content
ContentLength(body) == CASE body = "c1" -> 1
                         [] body = "c2" -> 1
                         [] body = "c3" -> 2

\* ---------------------------------------------------------- exceptions
NoError == [cls |-> "", Code |-> "", Message |-> ""]
NotFound == [cls |-> "ClientError", Code |-> "404", Message |-> "Not Found"]
ConnectError == [cls |-> "EndpointConnectionError", Code |-> "",
                 Message |-> "Could not connect to the endpoint URL"]
DiskError == [cls |-> "OSError", Code |-> "", Message |-> "Input/output error"]
KeyError == [cls |-> "KeyError", Code |-> "", Message |-> "'Contents'"]
TransportErrors == {NotFound, ConnectError}

\* str(e)
ExcStr(e) ==
    IF e.cls = "ClientError"
    THEN <<"An error occurred (", e.Code, "): ", e.Message>>
    ELSE <<e.Message>>

\* the second element of a (result, message) pair: text, or an exception object
MsgText(text) == [exc |-> NoError, text |-> text]
MsgExc(e) == [exc |-> e, text |-> <<>>]
\* what csv.DictWriter writes for it
CsvStr(message) == IF message.exc.cls # "" THEN ExcStr(message.exc) ELSE message.text

VARIABLES
    pc,          \* "idle", "listed", "loading", "checking", "done", "crashed"
    env,         \* "live" or "frozen"
    store,       \* frozen storage contents: <<bucket, key>> -> object
    gen,         \* resumed invocations started in the frozen chain (capped)
    reader,      \* rows of the previous report not yet read
    prior,       \* history: the previous report as it was when the run started
    file_list,   \* main: file_list
    src_bucket,  \* main: src_bucket
    dest_bucket, \* main: dest_bucket
    num_files,   \* main: num_files
    out,         \* the output report on disk: header and rows
    counter,     \* main: counter
    succeeded,   \* main: succeeded
    total_size,  \* main: total_size
    calls,       \* history: storage calls of this run, <<operation, bucket, key>>
    last,        \* history: what the latest loop iteration did
    uncaught,    \* the exception that ended the run, NoError if none
    integrity,   \* file-integrity-testing.py: the state of the script
    comparator,  \* bucket_comparator.py: the state of the script
    indexd,      \* indexd_tester.py: the state of the script
    metadata,    \* match_metadata_validator.py: the MetadataValidator object
    manifest     \* match_manifest_validator.py: the ManifestValidator object

\* the variables of the file-copy validator, and those of the other scripts
copy_vars == <<pc, env, store, gen, reader, prior, file_list, src_bucket, dest_bucket,
               num_files, out, counter, succeeded, total_size, calls, last, uncaught>>
other_vars == <<integrity, comparator, indexd, metadata, manifest>>
vars == <<pc, env, store, gen, reader, prior, file_list, src_bucket, dest_bucket,
          num_files, out, counter, succeeded, total_size, calls, last, uncaught,
          integrity, comparator, indexd, metadata, manifest>>

\* a script that is not the one running
NotRun == [pc |-> "off"]

\* ------------------------------------------------------ storage service
Absent == [exists |-> FALSE, ETag |-> "", body |-> ""]
Object(etag, body) == [exists |-> TRUE, ETag |-> etag, body |-> body]
NoStore == [p \in {} |-> Absent]

HeadOk(etag, len) == [ok |-> TRUE, ETag |-> etag, ContentLength |-> len, err |-> NoError]
HeadErr(e) == [ok |-> FALSE, ETag |-> "", ContentLength |-> 0, err |-> e]
BodyOk(body) == [ok |-> TRUE, body |-> body, err |-> NoError]
BodyErr(e) == [ok |-> FALSE, body |-> "", err |-> e]

\* s3.head_object(Bucket, Key): the responses the call can give
head_object(bucket, key) ==
    IF env = "live"
    THEN {HeadOk(t, s) : t \in ETags, s \in Sizes} \cup {HeadErr(e) : e \in TransportErrors}
    ELSE LET o == store[<<bucket, key>>]
         IN  IF o.exists THEN {HeadOk(o.ETag, ContentLength(o.body))}
                         ELSE {HeadErr(NotFound)}

\* s3.download_fileobj(Bucket, Key, data)
download_fileobj(bucket, key) ==
    IF env = "live"
    THEN {BodyOk(c) : c \in Contents} \cup {BodyErr(e) : e \in TransportErrors}
    ELSE LET o == store[<<bucket, key>>]
         IN  IF o.exists THEN {BodyOk(o.body)} ELSE {BodyErr(NotFound)}

\* get_md5(local file): the digest, or an error reading the file
get_md5(body) ==
    {[ok |-> TRUE, md5 |-> MD5(body), err |-> NoError]}
    \cup (IF env = "live" THEN {[ok |-> FALSE, md5 |-> "", err |-> DiskError]} ELSE {})

\* ------------------------------------------------------------ list_files
File(key, etag, size) == [Key |-> key, ETag |-> etag, Size |-> size]

\* list_files(s3, bucket, s3_path): the listings the paginator can give a fresh
\* run, keys in order.  A page of a listing without objects has no 'Contents'
\* (KeyError); a transport error leaves the paginator as it is raised.
list_files(bucket, s3_path) ==
    {[ok |-> FALSE, files |-> <<>>, err |-> e] : e \in {KeyError} \cup TransportErrors}
    \cup UNION {{[ok |-> TRUE, err |-> NoError,
                  files |-> [i \in 1..n |-> File(i, t[i], s[i])]]
                    : t \in [1..n -> ETags], s \in [1..n -> Sizes]}
                : n \in 1..MaxFiles}

\* ----------------------------------------------------------- compare_md5
\* the finally block: every file of tmp_files is removed from the disk
RemoveTmpFiles(disk, tmp_files) == disk \ Range(tmp_files)

\* One execution of compare_md5: result and message as returned, the storage
\* calls made, the temporary files left on disk, the digests computed.
Md5Return(result, message, made, disk, tmp_files, src_md5, dest_md5) ==
    [result |-> result, message |-> message, calls |-> made,
     disk |-> RemoveTmpFiles(disk, tmp_files),
     src_md5 |-> src_md5, dest_md5 |-> dest_md5, src_body |-> "", dest_body |-> ""]

\* line 69, mutated: the digest of the source copy is taken a second time
dest_digest_of_source(src_body, dest_body) == get_md5(src_body)

\* line 69: dest_md5 = get_md5(dest_file_name)
dest_digest(src_body, dest_body) == get_md5(dest_body)

compare_md5(src_b, dest_b, key) ==
    LET file_name == basename(key)
        src_file_name == <<"tmp/src_", file_name>>
        dest_file_name == <<"tmp/dest_", file_name>>
        get_src == <<"download_fileobj", src_b, key>>
        get_dest == <<"download_fileobj", dest_b, key>>
        \* after both digests are known
        Compare(src_md5, dest_md5) ==
            IF src_md5 = dest_md5
            THEN Md5Return(SUCCEEDED, MsgText(<<"MD5s match">>), <<get_src, get_dest>>,
                           {src_file_name, dest_file_name},
                           <<src_file_name, dest_file_name>>, src_md5, dest_md5)
            ELSE Md5Return(FAILED, MsgText(<<"MD5s don't match">>), <<get_src, get_dest>>,
                           {src_file_name, dest_file_name},
                           <<src_file_name, dest_file_name>>, src_md5, dest_md5)
        \* open(dest_file_name, 'wb') creates the file, then the download runs
        Dest(src_body, src_md5) ==
            UNION {IF ~r.ok
                   THEN {Md5Return(FAILED, MsgExc(r.err), <<get_src, get_dest>>,
                                   {src_file_name, dest_file_name},
                                   <<src_file_name>>, src_md5, "")}
                   ELSE {[(IF ~m.ok
                           THEN Md5Return(FAILED, MsgExc(m.err), <<get_src, get_dest>>,
                                          {src_file_name, dest_file_name},
                                          <<src_file_name, dest_file_name>>, src_md5, "")
                           ELSE Compare(src_md5, m.md5))
                          EXCEPT !.src_body = src_body, !.dest_body = r.body]
                           : m \in dest_digest(src_body, r.body)}
                     : r \in download_fileobj(dest_b, key)}
    IN  \* open(src_file_name, 'wb') creates the file, then the download runs
        UNION {IF ~r.ok
               THEN {Md5Return(FAILED, MsgExc(r.err), <<get_src>>,
                               {src_file_name}, <<>>, "", "")}
               ELSE UNION {IF ~m.ok
                           THEN {Md5Return(FAILED, MsgExc(m.err), <<get_src>>,
                                           {src_file_name}, <<src_file_name>>, "", "")}
                           ELSE Dest(r.body, m.md5)
                             : m \in get_md5(r.body)}
                 : r \in download_fileobj(src_b, key)}

\* ---------------------------------------------------------- validate_file
\* One execution of validate_file: the pair returned, the response of the
\* destination lookup, whether compare_md5 ran and what it left behind.
\* line 89, mutated: the error code is left out of the reason
ClientErrorMessageOnly(e) == <<e.Message>>

\* line 89: f"{e.response['Error']['Code']}: {e.response['Error']['Message']}"
ClientErrorReason(e) == <<e.Code, ": ", e.Message>>

\* line 93, mutated: the tags count as equal only when the sizes are equal too
TagsAndSizesMatch(file, target) ==
    file.ETag = target.ETag /\ file.Size = target.ContentLength

\* line 93: file['ETag'] == target['ETag']
TagsMatch(file, target) == file.ETag = target.ETag

\* line 95, mutated: a destination copy at least as large passes
SizeAtMost(file, target) == file.Size <= target.ContentLength

\* line 95, mutated: the sizes are never compared
SizesNeverCompared(file, target) == TRUE

\* line 95: file['Size'] == target['ContentLength']
SizesMatch(file, target) == file.Size = target.ContentLength

validate_file(file, src_b, dest_b) ==
    LET head_dest == <<"head_object", dest_b, file.Key>>
        Return(result, message, target) ==
            [result |-> result, message |-> message, calls |-> <<head_dest>>,
             target |-> target, md5 |-> FALSE, disk |-> {},
             src_md5 |-> "", dest_md5 |-> "", src_body |-> "", dest_body |-> ""]
    IN  UNION {
          IF ~target.ok
          THEN IF target.err.cls = "ClientError"
               THEN {Return(FAILED,
                            MsgText(ClientErrorReason(target.err)), target)}
               ELSE {Return(FAILED, MsgExc(target.err), target)}
          ELSE IF TagsMatch(file, target)
               THEN {Return(SUCCEEDED, MsgText(<<"ETags match">>), target)}
               ELSE IF SizesMatch(file, target)
                    THEN {[result |-> x.result, message |-> x.message,
                           calls |-> <<head_dest>> \o x.calls, target |-> target,
                           md5 |-> TRUE, disk |-> x.disk,
                           src_md5 |-> x.src_md5, dest_md5 |-> x.dest_md5,
                           src_body |-> x.src_body, dest_body |-> x.dest_body]
                             : x \in compare_md5(src_b, dest_b, file.Key)}
                    ELSE {Return(FAILED, MsgText(<<"File sizes don't match">>), target)}
            : target \in head_object(dest_b, file.Key)}

\* ------------------------------------------------------------------ rows
\* a row of the report as csv holds it: every cell is text
Row(src_b, dest_b, key, file_size, result, message) ==
    [src_bucket |-> src_b, dest_bucket |-> dest_b, file_name |-> key,
     file_size |-> IntText(file_size), result |-> result, reason |-> CsvStr(message)]

NoFile == [header |-> <<>>, rows |-> <<>>]

\* lines 123-124: the previous-validation annotation, added unless already there
Annotate(obj) ==
    IF ~endswith(obj.reason, PREVIOUSE_VALIDATED)
    THEN [obj EXCEPT !.reason = @ \o PREVIOUSE_VALIDATED]
    ELSE obj

\* line 122, mutated: a row replayed once before is checked again
IsSucceededFirstTime(obj) ==
    obj.result = SUCCEEDED /\ ~endswith(obj.reason, PREVIOUSE_VALIDATED)

\* line 122: the rows of a previous report that are trusted and replayed
IsSucceeded(obj) == obj.result = SUCCEEDED

\* lines 162-168, mutated: the loop continues before the row is written
ReplaySkipped(file) == <<>>

\* line 163: writer.writerow(file) for a row of the previous report
ReplayRows(file) == <<file>>

\* line 162: the entries of file_list that are rows of the previous report
IsReplay(file) == "result" \in DOMAIN file

\* History kept of a row of the previous report.  A row that is not Succeeded is
\* read for its buckets and file name only; the rest of it is kept in a frozen
\* chain, where reports are compared row for row.
Remembered(obj) ==
    IF obj.result = SUCCEEDED \/ env = "frozen"
    THEN obj
    ELSE [src_bucket |-> obj.src_bucket, dest_bucket |-> obj.dest_bucket,
          file_name |-> obj.file_name, result |-> obj.result]

NoExec == [result |-> "", message |-> MsgText(<<>>), calls |-> <<>>,
           target |-> HeadErr(NoError), md5 |-> FALSE, disk |-> {},
           src_md5 |-> "", dest_md5 |-> "", src_body |-> "", dest_body |-> ""]
NoLast == [kind |-> "none", file |-> File(0, "", 0), exec |-> NoExec]

\* ------------------------------------------------------------------ Init
Init ==
    /\ pc = "idle"
    /\ env = "live"
    /\ store = NoStore
    /\ gen = 0
    /\ reader = <<>>
    /\ prior = <<>>
    /\ file_list = <<>>
    /\ src_bucket = ""
    /\ dest_bucket = ""
    /\ num_files = 0
    /\ out = NoFile
    /\ counter = 0
    /\ succeeded = 0
    /\ total_size = 0
    /\ calls = <<>>
    /\ last = NoLast
    /\ uncaught = NoError
    /\ integrity = NotRun
    /\ comparator = NotRun
    /\ indexd = NotRun
    /\ metadata = NotRun
    /\ manifest = NotRun

\* --------------------------------------------------------------- actions
\* main, lines 104-112 and 132-144: a fresh run lists the source path
StartFresh ==
    /\ UNCHANGED other_vars
    /\ pc = "idle"
    /\ \E given \in BOOLEAN, pair \in BucketPairs :
         IF ~given
         THEN \* lines 133-135: an argument is missing, the run returns
              /\ pc' = "usage"
              /\ UNCHANGED <<file_list, src_bucket, dest_bucket, calls, uncaught>>
         ELSE \E listing \in list_files(pair[1], "") :
              /\ src_bucket' = pair[1]
              /\ dest_bucket' = pair[2]
              /\ calls' = <<<<"list_objects", pair[1], "">>>>
              /\ IF listing.ok
                 THEN /\ file_list' = listing.files
                      /\ pc' = "listed"
                      /\ UNCHANGED uncaught
                 ELSE /\ pc' = "crashed"
                      /\ uncaught' = listing.err
                      /\ UNCHANGED file_list
    /\ UNCHANGED <<env, store, gen, reader, prior, num_files, out, counter,
                   succeeded, total_size, last>>

\* main, lines 104-117: a run resumed from the report of the previous run
StartResume ==
    /\ UNCHANGED other_vars
    /\ pc \in {"idle", "done"}
    /\ out.rows # <<>>
    /\ pc' = "loading"
    /\ reader' = out.rows
    /\ prior' = [i \in 1..Len(out.rows) |-> Remembered(out.rows[i])]
    /\ gen' = IF env = "frozen" THEN Min(gen + 1, MaxGen) ELSE 0
    /\ file_list' = <<>>
    /\ src_bucket' = ""
    /\ dest_bucket' = ""
    /\ num_files' = 0
    /\ out' = NoFile
    /\ counter' = 0
    /\ succeeded' = 0
    /\ total_size' = 0
    /\ calls' = <<>>
    /\ last' = NoLast
    /\ uncaught' = NoError
    /\ UNCHANGED <<env, store>>

\* main, lines 119-130: one row of the previous report
LoadRow ==
    /\ UNCHANGED other_vars
    /\ pc = "loading"
    /\ reader # <<>>
    /\ LET obj == Head(reader)
       IN  /\ reader' = Tail(reader)
           /\ src_bucket' = obj.src_bucket
           /\ dest_bucket' = obj.dest_bucket
           /\ IF IsSucceeded(obj)
              THEN /\ file_list' = Append(file_list, Annotate(obj))
                   /\ UNCHANGED <<pc, calls, uncaught>>
              ELSE \E file \in head_object(obj.src_bucket, obj.file_name) :
                   /\ calls' = Append(calls, <<"head_object", obj.src_bucket, obj.file_name>>)
                   /\ IF file.ok
                      THEN /\ file_list' = Append(file_list,
                                  File(obj.file_name, file.ETag, file.ContentLength))
                           /\ UNCHANGED <<pc, uncaught>>
                      ELSE \* line 127 is in no try block
                           /\ pc' = "crashed"
                           /\ uncaught' = file.err
                           /\ UNCHANGED file_list
    /\ UNCHANGED <<env, store, gen, prior, num_files, out, counter, succeeded,
                   total_size, last>>

\* main, lines 146-157: the output file is opened and its header written
OpenOutput ==
    /\ UNCHANGED other_vars
    /\ \/ pc = "listed"
       \/ pc = "loading" /\ reader = <<>>
    /\ pc' = "checking"
    /\ num_files' = Len(file_list)
    /\ out' = [header |-> fieldnames, rows |-> <<>>]
    /\ counter' = 0
    /\ succeeded' = 0
    /\ total_size' = 0
    /\ UNCHANGED <<env, store, gen, reader, prior, file_list, src_bucket, dest_bucket,
                   calls, last, uncaught>>

\* main, lines 158-194: one iteration of the loop over file_list
CheckItem ==
    /\ UNCHANGED other_vars
    /\ pc = "checking"
    /\ counter < Len(file_list)
    /\ counter' = counter + 1
    /\ LET file == file_list[counter + 1]
       IN  IF IsReplay(file)
           THEN \* lines 162-168
                /\ out' = [out EXCEPT !.rows = @ \o ReplayRows(file)]
                /\ total_size' = total_size + int(file.file_size)
                /\ last' = [kind |-> "replay", file |-> File(file.file_name, "", 0),
                            exec |-> NoExec]
                /\ UNCHANGED <<succeeded, calls>>
           ELSE \* lines 170-194
                \E x \in validate_file(file, src_bucket, dest_bucket) :
                /\ total_size' = total_size + file.Size
                /\ succeeded' = IF x.result = SUCCEEDED THEN succeeded + 1 ELSE succeeded
                /\ out' = [out EXCEPT !.rows = Append(@,
                              Row(src_bucket, dest_bucket, file.Key, file.Size,
                                  x.result, x.message))]
                /\ calls' = calls \o x.calls
                /\ last' = [kind |-> "check", file |-> file, exec |-> x]
    /\ UNCHANGED <<pc, env, store, gen, reader, prior, file_list, src_bucket,
                   dest_bucket, num_files, uncaught>>

\* main, lines 196-201: the summary is logged and the run ends
Finish ==
    /\ UNCHANGED other_vars
    /\ pc = "checking"
    /\ counter = Len(file_list)
    /\ pc' = "done"
    /\ UNCHANGED <<env, store, gen, reader, prior, file_list, src_bucket, dest_bucket,
                   num_files, out, counter, succeeded, total_size, calls, last, uncaught>>

Next == StartFresh \/ StartResume \/ LoadRow \/ OpenOutput \/ CheckItem \/ Finish

Spec == Init /\ [][Next]_vars

\* ------------------------------------------------- frozen storage chains
\* Storage contents that never change.  Only equality of tags, sizes and
\* digests between the two copies is observed, so the source copy is one
\* fixed object or missing and the destination copy ranges over the cases.
FrozenStores ==
    {st \in [Buckets \X Keys -> {Absent} \cup {Object(t, c) : t \in ETags, c \in Contents}] :
        \A k \in Keys :
            /\ st[<<"src-bucket", k>>] \in {Absent, Object("e1", "c1")}
            /\ st[<<"dest-bucket", k>>] # Object("e1", "c2")}

\* Reports of an earlier run, made before the storage reached its frozen state.
InitialRows(key) ==
    {Row("src-bucket", "dest-bucket", key, size, o[1], MsgText(o[2])) :
        size \in Sizes,
        o \in {<<SUCCEEDED, <<"ETags match">>>>,
               <<SUCCEEDED, <<"MD5s match">> \o PREVIOUSE_VALIDATED>>,
               <<FAILED, <<"File sizes don't match">>>>,
               <<FAILED, <<"404", ": ", "Not Found">>>>}}
InitialReports ==
    UNION {{r \in [1..n -> UNION {InitialRows(k) : k \in Keys}] :
               \A i \in 1..n : r[i].file_name = i}
           : n \in 1..MaxFiles}

InitFixed ==
    /\ pc = "idle"
    /\ env = "frozen"
    /\ store \in FrozenStores
    /\ gen = 0
    /\ reader = <<>>
    /\ prior = <<>>
    /\ file_list = <<>>
    /\ src_bucket = ""
    /\ dest_bucket = ""
    /\ num_files = 0
    /\ out \in {[header |-> fieldnames, rows |-> r] : r \in InitialReports}
    /\ counter = 0
    /\ succeeded = 0
    /\ total_size = 0
    /\ calls = <<>>
    /\ last = NoLast
    /\ uncaught = NoError
    /\ integrity = NotRun
    /\ comparator = NotRun
    /\ indexd = NotRun
    /\ metadata = NotRun
    /\ manifest = NotRun

NextFixed == StartResume \/ LoadRow \/ OpenOutput \/ CheckItem \/ Finish

SpecFixed == InitFixed /\ [][NextFixed]_vars

\* =================================================================
\* Properties
\* =================================================================
Resumed == prior # <<>>
Ended == pc \in {"done", "crashed"}
Checked == last.kind = "check"
\* the row the latest loop iteration wrote
LastRow == out.rows[Len(out.rows)]
\* the keys of the input items, in input order
InputKeys ==
    IF Resumed THEN [i \in 1..Len(prior) |-> prior[i].file_name]
               ELSE [i \in 1..Len(file_list) |-> file_list[i].Key]
SucceededKeys(rows) == {rows[i].file_name : i \in {j \in 1..Len(rows) : rows[j].result = SUCCEEDED}}
Downloads(made) == {i \in 1..Len(made) : made[i][1] = "download_fileobj"}
CallsFor(key) == {i \in 1..Len(calls) : calls[i][3] = key}
Occurrences(text, token) == Cardinality({i \in 1..Len(text) : text[i] = token})

\* C1: a run that reaches completion has written the header and then exactly
\* one row per input item (listing or previous report), in input order.
C1_OneRowPerItemInOrder ==
    pc = "done" =>
        /\ out.header = fieldnames
        /\ Len(out.rows) = Len(InputKeys)
        /\ \A i \in 1..Len(InputKeys) : out.rows[i].file_name = InputKeys[i]

C1_Witness ==
    /\ pc = "done"
    /\ Resumed
    /\ Len(out.rows) >= 2
    /\ \E i, j \in 1..Len(file_list) : IsReplay(file_list[i]) /\ ~IsReplay(file_list[j])

\* C2 (as claimed): no failure of a storage call made for one item ends the
\* run, and a check whose destination lookup failed writes a Failed row.
C2_ItemFailureNeverAborts ==
    /\ ~(pc = "crashed" /\ calls # <<>> /\ calls[Len(calls)][1] = "head_object")
    /\ (Checked /\ ~last.exec.target.ok) =>
          /\ LastRow.result = FAILED
          /\ LastRow.reason \in {ExcStr(last.exec.target.err),
                                  <<last.exec.target.err.Code, ": ",
                                    last.exec.target.err.Message>>}
    /\ (Checked /\ last.exec.message.exc # NoError) =>
          /\ LastRow.result = FAILED
          /\ LastRow.reason = ExcStr(last.exec.message.exc)
    /\ pc = "done" => Len(out.rows) = Len(InputKeys)

\* C3 (as claimed): a resumed run ends with a report of N+M rows, the N
\* Succeeded rows unchanged but for one annotation and without any storage
\* call, each of the M other items checked once.
C3_ResumeReplaysAndRechecks ==
    (Resumed /\ Ended) =>
        /\ pc = "done"
        /\ Len(out.rows) = Len(prior)
        /\ \A i \in 1..Len(prior) :
              IF prior[i].result = SUCCEEDED
              THEN /\ [out.rows[i] EXCEPT !.reason = prior[i].reason] = prior[i]
                   /\ out.rows[i].reason \in
                         {prior[i].reason, prior[i].reason \o PREVIOUSE_VALIDATED}
                   /\ Occurrences(out.rows[i].reason, PREVIOUSE_VALIDATED[1]) = 1
                   /\ CallsFor(prior[i].file_name) = {}
              ELSE /\ Cardinality({c \in CallsFor(prior[i].file_name) :
                                     calls[c][1] = "head_object"}) = 2

\* C4 (as claimed): when compare_md5 has returned, no temporary copy it
\* created is left on disk.
C4_NoTemporaryCopyLeft ==
    (Checked /\ last.exec.md5) => last.exec.disk = {}

\* C5: equal tags give Succeeded with the reason 'ETags match', whatever the
\* sizes, and nothing is downloaded.
C5_EqualTagsSucceed ==
    (Checked /\ last.exec.target.ok /\ last.file.ETag = last.exec.target.ETag) =>
        /\ last.exec.result = SUCCEEDED
        /\ LastRow.result = SUCCEEDED
        /\ LastRow.reason = <<"ETags match">>
        /\ ~last.exec.md5
        /\ Downloads(last.exec.calls) = {}

C5_Witness ==
    /\ Checked
    /\ last.exec.target.ok
    /\ last.file.ETag = last.exec.target.ETag
    /\ last.file.Size # last.exec.target.ContentLength
    /\ LastRow.result = SUCCEEDED

BothDigested ==
    /\ Checked
    /\ last.exec.md5
    /\ last.exec.src_body # ""
    /\ last.exec.dest_body # ""
    /\ last.exec.message.exc = NoError

\* C7: with different tags and equal sizes compare_md5 runs, and once both
\* copies are downloaded and digested the result is Succeeded when the MD5 of
\* the source copy equals the MD5 of the destination copy, Failed otherwise.
C7_DigestDecides ==
    (/\ Checked
     /\ last.exec.target.ok
     /\ last.file.ETag # last.exec.target.ETag
     /\ last.file.Size = last.exec.target.ContentLength) =>
        /\ last.exec.md5
        /\ BothDigested =>
              /\ last.exec.result = LastRow.result
              /\ LastRow.result = IF MD5(last.exec.src_body) = MD5(last.exec.dest_body)
                                  THEN SUCCEEDED ELSE FAILED
              /\ LastRow.reason = IF MD5(last.exec.src_body) = MD5(last.exec.dest_body)
                                  THEN <<"MD5s match">> ELSE <<"MD5s don't match">>

C7_Witness ==
    /\ BothDigested
    /\ last.exec.src_body # last.exec.dest_body
    /\ MD5(last.exec.src_body) = MD5(last.exec.dest_body)
    /\ LastRow.result = SUCCEEDED

\* C8: a destination lookup answered 'not found' gives Failed with the error
\* code in the reason, and compare_md5 is not invoked.
C8_MissingAtDestinationFails ==
    (Checked /\ ~last.exec.target.ok /\ last.exec.target.err = NotFound) =>
        /\ LastRow.result = FAILED
        /\ NotFound.Code \in Range(LastRow.reason)
        /\ ~last.exec.md5
        /\ Downloads(last.exec.calls) = {}

C8_Witness ==
    /\ Checked
    /\ ~last.exec.target.ok
    /\ last.exec.target.err = NotFound
    /\ LastRow.result = FAILED

\* C9: a resumed run that completes keeps every key that was Succeeded in the
\* report it resumed from Succeeded in the report it writes.
C9_SucceededNeverShrinks ==
    (Resumed /\ pc = "done") => SucceededKeys(prior) \subseteq SucceededKeys(out.rows)

C9_Witness ==
    /\ Resumed
    /\ pc = "done"
    /\ SucceededKeys(prior) # {}
    /\ \E i \in 1..Len(out.rows) : out.rows[i].result = FAILED
    /\ \E i \in 1..Len(prior) :
          prior[i].result = SUCCEEDED /\ endswith(prior[i].reason, PREVIOUSE_VALIDATED)

\* C10 (as claimed): over frozen storage every resumed invocation completes,
\* and from the third one on it reproduces the report it resumed from.
C10_ResumeConverges ==
    (Resumed /\ Ended) =>
        /\ pc = "done"
        /\ gen >= 3 => out.rows = prior

\* the stages one fresh check can run for an item, in the order of the code:
\* destination lookup (line 87), source download (57), destination download (66)
StagesOf(file) ==
    <<<<"head_object", dest_bucket, file.Key>>,
      <<"download_fileobj", src_bucket, file.Key>>,
      <<"download_fileobj", dest_bucket, file.Key>>>>
IsPrefix(s, t) == Len(s) <= Len(t) /\ SubSeq(t, 1, Len(s)) = s
NoRepeat(s) == \A i, j \in 1..Len(s) : s[i] = s[j] => i = j

C12_RowsWrittenInStepAndKept ==
    [][(pc = "checking" /\ pc' \in {"checking", "done"}) =>
          /\ Len(out.rows) = counter
          /\ Len(out'.rows) = counter'
          /\ IsPrefix(out.rows, out'.rows)
          /\ \A i \in 1..counter' :
                out'.rows[i].file_name =
                    (IF IsReplay(file_list[i]) THEN file_list[i].file_name
                                               ELSE file_list[i].Key)]_vars

C12_Witness ==
    /\ pc = "checking"
    /\ counter >= 1
    /\ counter < Len(file_list)
    /\ Len(out.rows) = counter

\* the size of input item i: the size its previous row records when the row
\* is replayed, the size of the source object when the item is checked
RECURSIVE InputSize(_)
InputSize(i) ==
    IF i = 0 THEN 0
    ELSE InputSize(i - 1) +
         (IF IsReplay(file_list[i]) THEN prior[i].file_size[2] ELSE file_list[i].Size)

Max(a, b) == IF a > b THEN a ELSE b

\* the state the file-copy validator is in while another script runs
CopyOff ==
    /\ pc = "idle"
    /\ env = "live"
    /\ store = NoStore
    /\ gen = 0
    /\ reader = <<>>
    /\ prior = <<>>
    /\ file_list = <<>>
    /\ src_bucket = ""
    /\ dest_bucket = ""
    /\ num_files = 0
    /\ out = NoFile
    /\ counter = 0
    /\ succeeded = 0
    /\ total_size = 0
    /\ calls = <<>>
    /\ last = NoLast
    /\ uncaught = NoError

\* --start_row and --num_rows as argparse accepts them (type=int)
StartRows == (0 - 1)..(MaxRows + 1)
NumRows == (0 - MaxRows)..(MaxRows + 1)

\* a cell pandas read as NaN: the file_location of a malformed row
NaN == <<"nan">>
\* the file_location of the well-formed row with 0-based index i
Location(i) == <<"s3://", "bucket", "/", i>>
\* the manifests of N rows: row i+1 has 0-based index i
Manifests(N) ==
    {[i \in 1..N |-> [file_location |-> IF i \in bad THEN NaN ELSE Location(i - 1)]]
        : bad \in SUBSET (1..N)}

AttributeError == [cls |-> "AttributeError", Code |-> "",
                   Message |-> "'float' object has no attribute 'replace'"]
TypeError == [cls |-> "TypeError", Code |-> "",
              Message |-> "unsupported operand type(s) for +: 'int' and 'NoneType'"]
FileNotFoundError == [cls |-> "FileNotFoundError", Code |-> "",
                      Message |-> "No such file or directory"]

\* lines 9-16: split_s3_path of a well-formed location
split_s3_path(s3_path) ==
    [bucket |-> s3_path[2], key |-> s3_path[4], file_name |-> s3_path[4]]

\* a bound of a Python slice over a sequence of n items
SliceBound(i, n) == IF i < 0 THEN Max(i + n, 0) ELSE Min(i, n)
\* line 80, df[start_row:end_row]: the 0-based indices the slice selects
Slice(n, start, stop) ==
    LET lo == SliceBound(start, n)
        hi == SliceBound(stop, n)
    IN  [k \in 1..Max(hi - lo, 0) |-> lo + k - 1]

\* lines 110-117 and 130: what downloading and hashing one object can give
\* (the download raises, or the copy on disk passes or fails the comparison)
DownloadOutcomes ==
    {[ok |-> FALSE, err |-> e, status |-> ""] : e \in TransportErrors}
    \cup {[ok |-> TRUE, err |-> NoError, status |-> s] : s \in {"Pass", "Fail"}}

IntegrityInit ==
    /\ CopyOff
    /\ \E N \in 0..MaxRows :
       \E df \in Manifests(N), start \in StartRows, num \in NumRows,
          given \in BOOLEAN :
          integrity = [pc |-> "parsed",
                       args |-> [start_row |-> start,
                                 num_rows |-> IF given THEN num ELSE 0,
                                 num_rows_given |-> given],
                       df |-> df, start_row |-> 0, end_row |-> 0, total_rows |-> 0,
                       df_interest |-> <<>>, fileCount |-> 0,
                       list_of_files |-> <<>>, list_pass_fail |-> <<>>,
                       statusFile |-> <<>>, result_tsv |-> <<>>, error |-> NoError]
    /\ comparator = NotRun
    /\ indexd = NotRun
    /\ metadata = NotRun
    /\ manifest = NotRun

\* lines 64-95: the manifest is read and the range of rows selected
ReadManifest ==
    /\ integrity.pc = "parsed"
    /\ \E readable \in BOOLEAN :
        IF ~readable
        THEN integrity' = [integrity EXCEPT !.pc = "caught", !.error = FileNotFoundError]
        ELSE IF ~integrity.args.num_rows_given
        THEN integrity' = [integrity EXCEPT !.pc = "caught", !.error = TypeError,
                              !.start_row = Max(integrity.args.start_row, 0)]
        ELSE LET start_row == IF integrity.args.start_row < 0 THEN 0
                              ELSE integrity.args.start_row
                 end_row0 == start_row + integrity.args.num_rows
                 end_row == IF end_row0 > Len(integrity.df) THEN Len(integrity.df)
                            ELSE end_row0
             IN  integrity' = [integrity EXCEPT
                                 !.pc = "loop",
                                 !.start_row = start_row,
                                 !.end_row = end_row,
                                 !.total_rows = end_row - start_row,
                                 !.df_interest = Slice(Len(integrity.df), start_row, end_row)]
    /\ UNCHANGED <<copy_vars, comparator, indexd, metadata, manifest>>

\* lines 96-142: one iteration of the loop over df_interest; the whole loop is
\* inside the try of line 64, so an exception leaves the loop
ProcessRow ==
    /\ integrity.pc = "loop"
    /\ integrity.df_interest # <<>>
    /\ LET index == Head(integrity.df_interest)
           row == integrity.df[index + 1]
           next == [integrity EXCEPT !.df_interest = Tail(@), !.fileCount = @ + 1]
       IN  IF row.file_location = NaN
           THEN integrity' = [next EXCEPT !.pc = "caught", !.error = AttributeError]
           ELSE \E o \in DownloadOutcomes :
                  IF ~o.ok
                  THEN integrity' = [next EXCEPT !.pc = "caught", !.error = o.err]
                  ELSE integrity' =
                         [next EXCEPT
                            !.list_of_files = Append(@, row.file_location),
                            !.list_pass_fail = Append(@, o.status),
                            !.statusFile = Append(@,
                                [fileCount |-> next.fileCount,
                                 total_rows |-> integrity.total_rows,
                                 file_name |-> split_s3_path(row.file_location).file_name,
                                 status |-> o.status])]
    /\ UNCHANGED <<copy_vars, comparator, indexd, metadata, manifest>>

\* lines 143-158: after the loop or the except clause, the results gathered
\* so far are written, if there are any
WriteResult ==
    /\ \/ integrity.pc = "caught"
       \/ integrity.pc = "loop" /\ integrity.df_interest = <<>>
    /\ integrity' =
         [integrity EXCEPT
            !.pc = "ended",
            !.result_tsv =
                IF Len(integrity.list_of_files) > 0
                THEN [k \in 1..Len(integrity.list_of_files) |->
                         [Files |-> integrity.list_of_files[k],
                          Status |-> integrity.list_pass_fail[k]]]
                ELSE <<>>]
    /\ UNCHANGED <<copy_vars, comparator, indexd, metadata, manifest>>

IntegrityNext == ReadManifest \/ ProcessRow \/ WriteResult

SpecIntegrity == IntegrityInit /\ [][IntegrityNext]_vars

\* the rows of the selected range, as 0-based indices in manifest order:
\* those from max(start_row, 0) up to, not including, the smaller of
\* max(start_row, 0) + num_rows and the manifest length
SelectedRange ==
    LET lo == Max(integrity.args.start_row, 0)
        hi == Min(lo + integrity.args.num_rows, Len(integrity.df))
    IN  [k \in 1..Max(hi - lo, 0) |-> lo + k - 1]
\* the 0-based indices of the rows that were downloaded, checked and reported
ReportedRows ==
    [k \in 1..Len(integrity.result_tsv) |-> integrity.result_tsv[k].Files[4]]

\* C14 (as claimed): a failure on one manifest row (object not found, download
\* error, malformed row) is recorded as a failure of that row with a reason,
\* and every later row of the selected range is still checked and reported.
C14_RowFailureRecovered ==
    (integrity.pc = "ended" /\ integrity.fileCount > 0) =>
        /\ Len(integrity.result_tsv) = Len(integrity.statusFile)
        /\ Len(integrity.result_tsv) = Len(Slice(Len(integrity.df), integrity.start_row,
                                                 integrity.end_row))
        /\ Len(integrity.statusFile) = integrity.fileCount

\* C20 (as claimed): for every start_row, num_rows and manifest length N, a run
\* that no failure interrupts processes exactly the rows with 0-based index in
\* [max(start_row,0), min(max(start_row,0)+num_rows, N)), once each, in order.
C20_SelectedRange ==
    (integrity.pc = "ended" /\ integrity.error = NoError) =>
        ReportedRows = SelectedRange

\* =================================================================
\* bucket_comparator.py
\* =================================================================
NameError == [cls |-> "NameError", Code |-> "",
              Message |-> "name 'key_source' is not defined"]

\* the objects of the source bucket: keys 1..n, each with an ETag
SourceListings ==
    UNION {[1..n -> {[key |-> k, e_tag |-> t] : k \in 1..n, t \in ETags}] : n \in 0..MaxFiles}
\* the destination bucket: the ETag of each key, "" where there is no object
DestContents == [Keys -> ETags \cup {""}]

ComparatorInit ==
    /\ CopyOff
    /\ integrity = NotRun
    /\ \E orig \in {l \in SourceListings : \A i \in 1..Len(l) : l[i].key = i},
          dest \in DestContents :
          comparator = [pc |-> "start", orig_bucket |-> orig, dest_bucket |-> dest,
                        todo |-> <<>>, naughty_files |-> <<>>, matches |-> 0,
                        printed |-> FALSE, error |-> NoError]
    /\ indexd = NotRun
    /\ metadata = NotRun
    /\ manifest = NotRun

\* line 25: dest_bucket.Object(key) builds a resource object without a
\* request, so it is never None; line 33: reading e_tag loads the object
\* with a HEAD request, which raises when there is no such object
e_tag(dest, key) ==
    {[ok |-> FALSE, err |-> ConnectError, e_tag |-> ""]} \cup
    {IF dest[key] = "" THEN [ok |-> FALSE, err |-> NotFound, e_tag |-> ""]
                       ELSE [ok |-> TRUE, err |-> NoError, e_tag |-> dest[key]]}

\* lines 16-23: the listing of the source bucket starts
ListSource ==
    /\ comparator.pc = "start"
    /\ \E listed \in BOOLEAN :
         IF listed
         THEN comparator' = [comparator EXCEPT !.pc = "loop", !.todo = comparator.orig_bucket]
         ELSE comparator' = [comparator EXCEPT !.pc = "crashed", !.error = ConnectError]
    /\ UNCHANGED <<copy_vars, integrity, indexd, metadata, manifest>>

\* lines 23-39: one iteration of the loop over the source objects
Visit ==
    /\ comparator.pc = "loop"
    /\ comparator.todo # <<>>
    /\ LET s3_file == Head(comparator.todo)
           next == [comparator EXCEPT !.todo = Tail(@)]
       IN  \E dest_file \in e_tag(comparator.dest_bucket, s3_file.key) :
             IF ~dest_file.ok
             THEN \* line 33 raises, nothing catches it
                  comparator' = [next EXCEPT !.pc = "crashed", !.error = dest_file.err]
             ELSE IF s3_file.e_tag # dest_file.e_tag
             THEN \* line 37 evaluates key_source, a name never assigned
                  comparator' = [next EXCEPT !.pc = "crashed", !.error = NameError]
             ELSE comparator' = [next EXCEPT !.matches = @ + 1]
    /\ UNCHANGED <<copy_vars, integrity, indexd, metadata, manifest>>

\* line 41: the naughty list is printed
PrintNaughty ==
    /\ comparator.pc = "loop"
    /\ comparator.todo = <<>>
    /\ comparator' = [comparator EXCEPT !.pc = "printed", !.printed = TRUE]
    /\ UNCHANGED <<copy_vars, integrity, indexd, metadata, manifest>>

ComparatorNext == ListSource \/ Visit \/ PrintNaughty

SpecComparator == ComparatorInit /\ [][ComparatorNext]_vars

\* the keys of the source objects that have no equal-tagged object in the
\* destination bucket
Mismatched ==
    {comparator.orig_bucket[i].key : i \in
        {j \in 1..Len(comparator.orig_bucket) :
            comparator.dest_bucket[comparator.orig_bucket[j].key]
                # comparator.orig_bucket[j].e_tag}}

\* C15 (as claimed): when no request fails for a reason other than a missing
\* object, the comparator visits every source object and then prints the
\* naughty list, which holds exactly the keys of the source objects that are
\* missing in the destination or have a different ETag there.
C15_NaughtyListComplete ==
    (comparator.pc \in {"printed", "crashed"} /\ comparator.error # ConnectError) =>
        /\ comparator.printed
        /\ comparator.todo = <<>>
        /\ Range(comparator.naughty_files) = Mismatched

\* =================================================================
\* indexd_tester.py
\* =================================================================
\* partial_download_tester, line 16
NUM_CHUNKS == 2

\* the rows of the IndexD manifest: row i names the file i
IndexdManifests == {[i \in 1..n |-> [GUID |-> i, filename |-> i]] : n \in 0..MaxRows}

\* the entries the script appends to the status file
Starting == <<"****Starting File Processing at ">>
ValidatedFile(filename) == <<"Validated File: ", filename>>
Complete == <<"****File Processing Complete at ">>
HasError(guid) == <<"****GUID: ", guid, " has an error ****">>

IndexdInit ==
    /\ CopyOff
    /\ integrity = NotRun
    /\ comparator = NotRun
    /\ \E rows \in IndexdManifests :
          indexd = [pc |-> "start", reader |-> rows, filename |-> 0, indexd_guid |-> 0,
                    stream |-> 0, arrived |-> 0, counter |-> 0, written |-> 0,
                    disk |-> {}, statusFile |-> <<>>, status |-> FALSE]
    /\ metadata = NotRun
    /\ manifest = NotRun

\* lines 63-76: the status file gets its opening entry, the manifest is opened
OpenStatus ==
    /\ indexd.pc = "start"
    /\ indexd' = [indexd EXCEPT !.pc = "rows", !.statusFile = Append(@, Starting)]
    /\ UNCHANGED <<copy_vars, integrity, comparator, metadata, manifest>>

\* lines 107-111: the handler of any exception raised while a row is processed
Failed(state) ==
    [state EXCEPT !.pc = "failed",
                  !.statusFile = Append(@, HasError(state.indexd_guid))]

\* lines 80-94 and 13-19: the next row is read, its signed URL is asked for
\* and, when the answer is ok, the download is started and the local file
\* opened; the body will arrive in `n` chunks
NextRow ==
    /\ indexd.pc = "rows"
    /\ indexd.reader # <<>>
    /\ LET row == Head(indexd.reader)
           next == [indexd EXCEPT !.reader = Tail(@), !.indexd_guid = row.GUID,
                                  !.filename = row.filename]
       IN  \E r \in {"raises", "not ok", "ok"} :
             CASE r = "raises" -> indexd' = Failed(next)
               [] r = "not ok" -> indexd' = next
               [] r = "ok" ->
                    \E request \in {"raises", "ok"}, n \in 0..MaxChunks :
                       IF request = "raises"
                       THEN indexd' = Failed(next)
                       ELSE indexd' = [next EXCEPT !.pc = "streaming",
                                          !.stream = n, !.arrived = n,
                                          !.counter = 0, !.written = 0,
                                          !.disk = @ \cup {row.filename}]
    /\ UNCHANGED <<copy_vars, integrity, comparator, metadata, manifest>>

\* lines 21-31: one chunk of the response is read and written to the file;
\* the second chunk written is followed by the status entry and the break
WriteChunk ==
    /\ indexd.pc = "streaming"
    /\ indexd.stream > 0
    /\ \E read \in {"raises", "ok"} :
         IF read = "raises"
         THEN indexd' = Failed(indexd)
         ELSE LET next == [indexd EXCEPT !.stream = @ - 1, !.written = @ + 1,
                                         !.counter = @ + 1]
              IN  IF next.counter = NUM_CHUNKS
                  THEN indexd' = [next EXCEPT
                                    !.pc = "downloaded",
                                    !.statusFile = Append(@, ValidatedFile(indexd.filename))]
                  ELSE indexd' = next
    /\ UNCHANGED <<copy_vars, integrity, comparator, metadata, manifest>>

\* lines 21 and 35: the response ends before the loop has broken
EndOfStream ==
    /\ indexd.pc = "streaming"
    /\ indexd.stream = 0
    /\ indexd' = [indexd EXCEPT !.pc = "downloaded"]
    /\ UNCHANGED <<copy_vars, integrity, comparator, metadata, manifest>>

\* line 96: the local file is removed after partial_download_tester returned
RemoveFile ==
    /\ indexd.pc = "downloaded"
    /\ indexd' = [indexd EXCEPT !.pc = "rows", !.disk = @ \ {indexd.filename}]
    /\ UNCHANGED <<copy_vars, integrity, comparator, metadata, manifest>>

\* lines 98-104: all rows are read
ProcessingComplete ==
    /\ indexd.pc = "rows"
    /\ indexd.reader = <<>>
    /\ indexd' = [indexd EXCEPT !.pc = "done", !.status = TRUE,
                                !.statusFile = Append(@, Complete)]
    /\ UNCHANGED <<copy_vars, integrity, comparator, metadata, manifest>>

IndexdNext ==
    OpenStatus \/ NextRow \/ WriteChunk \/ EndOfStream \/ RemoveFile \/ ProcessingComplete

SpecIndexd == IndexdInit /\ [][IndexdNext]_vars

\* C16 (as claimed): the partial download writes at most two chunks to the
\* local file, and a download that finishes without error, also one whose
\* content arrived in fewer than two chunks, has appended its 'Validated File'
\* entry to the status file.
C16_TwoChunksAndValidated ==
    /\ indexd.pc \in {"streaming", "downloaded"} => indexd.written <= NUM_CHUNKS
    /\ indexd.pc = "downloaded" =>
          indexd.statusFile[Len(indexd.statusFile)] = ValidatedFile(indexd.filename)

\* =================================================================
\* match_manifest_validator.py: the patient bookkeeping of
\* ManifestValidator (validate_file_patient, validate_patient_count,
\* validate_patient_file_count), in the order validate() calls them
\* =================================================================
\* line 32
NUM_FILE_TYPES == 5

\* patient sequence numbers, and the same numbers as the manifest holds them
PatientIds == {"p1", "p2"}
Ciphered == {"x1", "x2"}
\* SimpleCipher.simple_decipher, with the cipher key of the configuration
simple_decipher(text) == CASE text = "x1" -> "p1"
                           [] text = "x2" -> "p2"

\* get_field_by_file_type, lines 229-238, knows five file types
FileTypes == {"DNABam", "RNABam", "VCF", "DNABai", "RNABai"}
\* the rows a manifest can hold: the columns validate_file_patient reads
ManifestRows ==
    {[patientSequenceNumber |-> "x1", file_type |-> t, file_name |-> "f1"]
        : t \in FileTypes \cup {"Other"}}
    \cup {[patientSequenceNumber |-> "x1", file_type |-> "DNABam", file_name |-> "f2"]}
    \cup {[patientSequenceNumber |-> "x2", file_type |-> t, file_name |-> "f1"]
        : t \in {"DNABam", "VCF"}}

\* the arms of the configuration file (config.py, lines 22-24)
ConfiguredArms == <<"EAY131-A", "EAY131-B">>

\* one entry of summaryReport.assignmentRecords; has_slot is FALSE when the
\* entry has no 'slot' key
Assignment(patient, has_slot, slot) ==
    [patientSequenceNumber |-> patient, has_slot |-> has_slot, slot |-> slot]
AssignmentRecords ==
    {<<>>,
     <<Assignment("p1", TRUE, 0), Assignment("p2", TRUE, 2)>>,
     <<Assignment("p1", FALSE, 0), Assignment("p2", TRUE, 1)>>,
     <<Assignment("p1", TRUE, 1), Assignment("p2", TRUE, 0 - 1)>>,
     <<Assignment("p1", TRUE, 1), Assignment("p2", TRUE, 1)>>}
\* one version of an arm as the treatment_arms API returns it
ArmVersions == 1..2
ArmRecords == {[version |-> v, assignmentRecords |-> a, none |-> FALSE]
                  : v \in ArmVersions, a \in AssignmentRecords}
\* the answers of the treatment_arms API for one arm: the versions of the
\* arm, each version once, in any order
ArmResponses ==
    {<<r>> : r \in ArmRecords}
    \cup {x \in ArmRecords \X ArmRecords : x[1].version # x[2].version}

\* a dict, as a function on its keys
EmptyDict == [k \in {} |-> 0]
Put(dict, key, value) ==
    [k \in DOMAIN dict \cup {key} |-> IF k = key THEN value ELSE dict[k]]
\* dict.get(key, default)
Get(dict, key, default) == IF key \in DOMAIN dict THEN dict[key] ELSE default

\* lines 193-199: the row is counted in self.patients
CountFile(patients, patient_id, file_type, file_name) ==
    LET with_patient == IF patient_id \notin DOMAIN patients
                        THEN Put(patients, patient_id, EmptyDict) ELSE patients
        with_type == IF file_type \notin DOMAIN with_patient[patient_id]
                     THEN Put(with_patient, patient_id,
                              Put(with_patient[patient_id], file_type, EmptyDict))
                     ELSE with_patient
        current_type == with_type[patient_id][file_type]
    IN  Put(with_type, patient_id,
            Put(with_type[patient_id], file_type,
                Put(current_type, file_name, Get(current_type, file_name, 0) + 1)))

\* line 111, mutated: only a patient with too many file types is reported
TooManyFileTypes(file_types) == Cardinality(DOMAIN file_types) > NUM_FILE_TYPES
\* line 111: len(file_types) != NUM_FILE_TYPES
WrongFileTypeCount(file_types) == Cardinality(DOMAIN file_types) # NUM_FILE_TYPES

\* lines 109-121: the value validate_patient_file_count returns
PatientFileCountResult(patients) ==
    \A patient \in DOMAIN patients :
       /\ ~WrongFileTypeCount(patients[patient])
       /\ \A type \in DOMAIN patients[patient] :
             \A file_name \in DOMAIN patients[patient][type] :
                ~(patients[patient][type][file_name] # 1)

\* line 166, mutated: the lowest version wins
Older(current_version, version) == current_version < version

\* line 166: current_version > arm_info[VERSION]
Newer(current_version, version) == current_version > version

NoArm == [version |-> 0, assignmentRecords |-> <<>>, none |-> TRUE]
\* lines 163-169: the loop over the versions the API returned
RECURSIVE ScanArms(_, _, _)
ScanArms(arms, i, arm_info) ==
    IF i > Len(arms) THEN arm_info
    ELSE ScanArms(arms, i + 1,
                  IF arm_info.none \/ Newer(arms[i].version, arm_info.version)
                  THEN arms[i] ELSE arm_info)
\* lines 150-169
retrieve_arm_info(arms) == ScanArms(arms, 1, NoArm)

\* line 183, mutated: slot 0 counts as an assignment
SlotNotNegative(slot) == slot >= 0
\* line 183: slot > 0
ValidSlot(slot) == slot > 0

\* lines 171-186: the patients of the latest version of the arm that have a
\* valid slot; int(patient.get('slot', -1)) is -1 for an entry without slot
get_patients_for_arm(arms) ==
    LET arm == retrieve_arm_info(arms)
        slot(patient) == IF patient.has_slot THEN patient.slot ELSE 0 - 1
    IN  {arm.assignmentRecords[i].patientSequenceNumber : i \in
            {j \in 1..Len(arm.assignmentRecords) : ValidSlot(slot(arm.assignmentRecords[j]))}}

\* lines 136-148: the value validate_patient_count returns
PatientCountResult(patients, all_patients) ==
    /\ \A patient \in DOMAIN patients : ~(patient \notin all_patients)
    /\ \A patient \in all_patients : ~(patient \notin DOMAIN patients)

\* the active patients of the highest version among the records of an answer:
\* those of its assignment records that have a slot greater than 0
HighestVersion(arms) ==
    CHOOSE r \in Range(arms) : \A q \in Range(arms) : q.version <= r.version
ActivePatients(arms) ==
    {a.patientSequenceNumber :
        a \in {x \in Range(HighestVersion(arms).assignmentRecords) :
                  x.has_slot /\ x.slot > 0}}

ManifestInit ==
    /\ CopyOff
    /\ integrity = NotRun
    /\ comparator = NotRun
    /\ indexd = NotRun
    /\ metadata = NotRun
    /\ manifest = [pc |-> "rows", arms |-> ConfiguredArms,
                   patients |-> EmptyDict, patients_info |-> {},
                   rows_read |-> 0, seen |-> EmptyDict,
                   arm_index |-> 0, all_patients |-> {}, roster |-> {},
                   patient_count |-> FALSE, patient_file_count |-> FALSE]

\* lines 188-207 (with get_match_file_path 210-226 and get_patient_meta_data
\* 340-352): the next manifest row is counted and its patient looked up in
\* MATCH; the value returned (whether MATCH has a file of that name) is not
\* kept in the object
validate_file_patient ==
    /\ manifest.pc = "rows"
    /\ manifest.rows_read < MaxManifestRows
    /\ \E obj \in ManifestRows :
         LET patient_id == simple_decipher(obj.patientSequenceNumber)
             next == [manifest EXCEPT
                        !.rows_read = @ + 1,
                        !.seen = Put(@, obj, Get(@, obj, 0) + 1),
                        !.patients = CountFile(@, patient_id, obj.file_type,
                                               obj.file_name)]
         IN  IF patient_id \in manifest.patients_info
             THEN manifest' = next
             ELSE \E fetched \in BOOLEAN :
                     IF fetched
                     THEN manifest' = [next EXCEPT !.patients_info = @ \cup {patient_id}]
                     ELSE manifest' = next
    /\ UNCHANGED <<copy_vars, integrity, comparator, indexd, metadata>>

\* lines 130-134: validate_patient_count starts, or takes the next arm
RetrieveArm ==
    /\ \/ manifest.pc = "rows"
       \/ manifest.pc = "arms"
    /\ manifest.arm_index < Len(manifest.arms)
    /\ \E arms \in ArmResponses :
         manifest' = [manifest EXCEPT
                        !.pc = "arms",
                        !.arm_index = @ + 1,
                        !.all_patients = @ \cup get_patients_for_arm(arms),
                        !.roster = @ \cup ActivePatients(arms)]
    /\ UNCHANGED <<copy_vars, integrity, comparator, indexd, metadata>>

\* lines 136-148: validate_patient_count compares and returns
validate_patient_count ==
    /\ manifest.pc = "arms"
    /\ manifest.arm_index = Len(manifest.arms)
    /\ manifest' = [manifest EXCEPT
                      !.pc = "files",
                      !.patient_count =
                          PatientCountResult(manifest.patients, manifest.all_patients)]
    /\ UNCHANGED <<copy_vars, integrity, comparator, indexd, metadata>>

\* lines 102-121
validate_patient_file_count ==
    /\ manifest.pc = "files"
    /\ manifest' = [manifest EXCEPT
                      !.pc = "done",
                      !.patient_file_count = PatientFileCountResult(manifest.patients)]
    /\ UNCHANGED <<copy_vars, integrity, comparator, indexd, metadata>>

ManifestNext ==
    \/ validate_file_patient
    \/ RetrieveArm
    \/ validate_patient_count
    \/ validate_patient_file_count

SpecManifest == ManifestInit /\ [][ManifestNext]_vars

\* the patients of the manifest rows read, deciphered, and the file types
\* the rows of one patient name
SeenPatients == {simple_decipher(obj.patientSequenceNumber) : obj \in DOMAIN manifest.seen}
SeenFileTypes(patient) ==
    {obj.file_type : obj \in {o \in DOMAIN manifest.seen :
                                 simple_decipher(o.patientSequenceNumber) = patient}}

C19_PatientCount ==
    manifest.pc \in {"files", "done"} =>
        (manifest.patient_count <=> SeenPatients = manifest.roster)

C19_Witness ==
    /\ manifest.pc = "files"
    /\ manifest.patient_count
    /\ SeenPatients = {"p1", "p2"}

\* =================================================================
\* match_metadata_validator.py: MetadataValidator.validate
\* =================================================================
Raised(cls) == [cls |-> cls, Code |-> "", Message |-> ""]

\* line 137: arm_id.replace(ARM_PREFIX, '')
get_ctdc_arm_id(arm_id) == CASE arm_id = "EAY131-A" -> "A"
                             [] arm_id = "EAY131-B" -> "B"
\* line 140: the case id without CASE_PREFIX, deciphered
get_psn(obj) == simple_decipher(CASE obj.case_id = "CTDC-x1" -> "x1"
                                  [] obj.case_id = "CTDC-x2" -> "x2")

\* the cases the caseOverview query can return: arm C is not configured
Cases ==
    {[case_id |-> c, clinical_trial_code |-> t, arm_id |-> a, arm_drug |-> "d1",
      disease |-> "t1", gender |-> "F", race |-> "r1", ethnicity |-> "e1"]
        : c \in {"CTDC-x1", "CTDC-x2"}, t \in {"NCI-MATCH", "other"},
          a \in {"A", "B", "C"}}
CaseOverviews == UNION {[1..n -> Cases] : n \in 0..MaxCases}

\* treatmentArmDrugs of an arm
ArmDrugs == {<<"d1">>, <<"d1", "d2">>}

\* lines 216-237: get_patients_for_arm of this class returns a dict from the
\* patients with a valid slot to the drug of the arm
patients_with_drug(arms, drugs) ==
    LET arm_drug == IF Len(drugs) = 1 THEN drugs[1] ELSE ""
    IN  [patient \in get_patients_for_arm(arms) |-> arm_drug]

\* the answers of the patients API: no record (the request is not ok), or a
\* record, whose list of diseases can be empty
NoInfo == [none |-> TRUE, diseases |-> <<>>, gender |-> "", races |-> <<>>,
           ethnicity |-> ""]
PatientInfos ==
    {[none |-> FALSE, diseases |-> d, gender |-> g, races |-> <<"r1">>,
      ethnicity |-> "e1"] : d \in {<<>>, <<"t1">>}, g \in {"F", "M"}}

\* lines 245-259: the record of the patient, from the cache or from the API
get_patient_meta_data(patients_info, patient_id) ==
    IF patient_id \in DOMAIN patients_info
    THEN {[info |-> patients_info[patient_id], patients_info |-> patients_info]}
    ELSE {[info |-> NoInfo, patients_info |-> patients_info]}
         \cup {[info |-> i, patients_info |-> Put(patients_info, patient_id, i)]
                  : i \in PatientInfos}

\* lines 115-134: the checks of one case in the order the dict literal
\* evaluates them; the first one that raises ends validate_case
CaseResult(obj, arm_patients, patient_info) ==
    LET patient_id == get_psn(obj)
        Result(arm, drug, rest) ==
            [raised |-> FALSE, err |-> NoError,
             row |-> [case_id |-> obj.case_id,
                      Trial_correct |-> obj.clinical_trial_code = "NCI-MATCH",
                      Arm_correct |-> arm, Arm_drug_correct |-> drug,
                      Diagnosis_correct |-> rest.diagnosis,
                      Gender_correct |-> rest.gender,
                      Race_correct |-> rest.race,
                      Ethnicity_correct |-> rest.ethnicity,
                      Validation_result |->
                          /\ obj.clinical_trial_code = "NCI-MATCH"
                          /\ arm /\ drug /\ rest.diagnosis /\ rest.gender
                          /\ rest.race /\ rest.ethnicity]]
        Raise(err) ==
            [raised |-> TRUE, err |-> err,
             row |-> [case_id |-> obj.case_id, Trial_correct |-> FALSE,
                      Arm_correct |-> FALSE, Arm_drug_correct |-> FALSE,
                      Diagnosis_correct |-> FALSE, Gender_correct |-> FALSE,
                      Race_correct |-> FALSE, Ethnicity_correct |-> FALSE,
                      Validation_result |-> FALSE]]
    IN  IF obj.arm_id \notin DOMAIN arm_patients
        THEN Raise(Raised("KeyError"))                        \* line 148
        ELSE IF patient_id \notin DOMAIN arm_patients[obj.arm_id]
        THEN Raise(Raised("KeyError"))                        \* line 153
        ELSE IF patient_info.none
        THEN Raise(Raised("TypeError"))                       \* line 157
        ELSE IF patient_info.diseases = <<>>
        THEN Raise(Raised("IndexError"))                      \* line 157
        ELSE Result(TRUE,
                    obj.arm_drug = arm_patients[obj.arm_id][patient_id],
                    [diagnosis |-> obj.disease = patient_info.diseases[1],
                     gender |-> obj.gender = patient_info.gender,
                     race |-> obj.race = patient_info.races[1],
                     ethnicity |-> obj.ethnicity = patient_info.ethnicity])

MetadataInit ==
    /\ CopyOff
    /\ integrity = NotRun
    /\ comparator = NotRun
    /\ indexd = NotRun
    /\ metadata = [pc |-> "arms", arms |-> ConfiguredArms, arm_index |-> 0,
                   arm_patients |-> EmptyDict, patients_info |-> EmptyDict,
                   cases |-> {}, data |-> <<>>, position |-> 0,
                   result_file |-> <<>>, case_validated |-> 0,
                   validation_succeeded |-> 0, patient_count |-> FALSE,
                   unfetched |-> {}, error |-> NoError]
    /\ manifest = NotRun

\* lines 69-71: the patients of the next configured arm are fetched
FetchArm ==
    /\ metadata.pc = "arms"
    /\ metadata.arm_index < Len(metadata.arms)
    /\ \E arms \in ArmResponses, drugs \in ArmDrugs :
         metadata' = [metadata EXCEPT
                        !.arm_index = @ + 1,
                        !.arm_patients =
                            Put(@, get_ctdc_arm_id(metadata.arms[metadata.arm_index + 1]),
                                patients_with_drug(arms, drugs))]
    /\ UNCHANGED <<copy_vars, integrity, comparator, indexd, manifest>>

\* lines 73-94: the caseOverview query is posted; an error status ends
\* validate, otherwise the result file is opened and its header written
QueryCases ==
    /\ metadata.pc = "arms"
    /\ metadata.arm_index = Len(metadata.arms)
    /\ \E answered \in BOOLEAN, data \in CaseOverviews :
         IF answered
         THEN metadata' = [metadata EXCEPT !.pc = "cases", !.data = data]
         ELSE metadata' = [metadata EXCEPT !.pc = "refused"]
    /\ UNCHANGED <<copy_vars, integrity, comparator, indexd, manifest>>

\* lines 95-100 with validate_case, lines 109-134: one case is validated and
\* its row written; nothing in validate or main catches an exception
ValidateCase ==
    /\ metadata.pc = "cases"
    /\ metadata.position < Len(metadata.data)
    /\ LET obj == metadata.data[metadata.position + 1]
           case_id == get_psn(obj)
       IN  \E got \in get_patient_meta_data(metadata.patients_info, case_id) :
             LET result == CaseResult(obj, metadata.arm_patients, got.info)
                 next == [metadata EXCEPT
                            !.position = @ + 1,
                            !.cases = @ \cup {case_id},
                            !.patients_info = got.patients_info,
                            !.unfetched = IF got.info.none THEN @ \cup {metadata.position + 1}
                                          ELSE @]
             IN  IF result.raised
                 THEN metadata' = [next EXCEPT !.pc = "crashed", !.error = result.err]
                 ELSE metadata' = [next EXCEPT
                                     !.case_validated = @ + 1,
                                     !.validation_succeeded =
                                         IF result.row.Validation_result THEN @ + 1 ELSE @,
                                     !.result_file = Append(@, result.row)]
    /\ UNCHANGED <<copy_vars, integrity, comparator, indexd, manifest>>

\* lines 102-107 with validate_patient_count, lines 168-193
CountPatients ==
    /\ metadata.pc = "cases"
    /\ metadata.position = Len(metadata.data)
    /\ LET all_patients ==
             UNION {DOMAIN metadata.arm_patients[get_ctdc_arm_id(metadata.arms[i])]
                       : i \in 1..Len(metadata.arms)}
       IN  metadata' = [metadata EXCEPT
                          !.pc = "done",
                          !.patient_count = /\ \A patient \in metadata.cases :
                                                  ~(patient \notin all_patients)
                                            /\ \A patient \in all_patients :
                                                  ~(patient \notin metadata.cases)]
    /\ UNCHANGED <<copy_vars, integrity, comparator, indexd, manifest>>

MetadataNext == FetchArm \/ QueryCases \/ ValidateCase \/ CountPatients

SpecMetadata == MetadataInit /\ [][MetadataNext]_vars

\* case i of the answer has a patient that is not an active patient of the
\* arm of the case (no such arm, or the patient has no valid slot in it)
NotActiveInArm(i) ==
    LET obj == metadata.data[i]
    IN  \/ obj.arm_id \notin DOMAIN metadata.arm_patients
        \/ get_psn(obj) \notin DOMAIN metadata.arm_patients[obj.arm_id]

\* C17 (as claimed): every case the metadata API returned gets exactly one
\* result row; a case whose patient is not an active patient of its arm, or
\* whose patient record could not be fetched, gets a row whose overall result
\* is False, and the remaining cases are still validated.
C17_EveryCaseGetsARow ==
    metadata.pc \in {"done", "crashed"} =>
        /\ Len(metadata.result_file) = Len(metadata.data)
        /\ \A i \in 1..Len(metadata.data) :
              /\ metadata.result_file[i].case_id = metadata.data[i].case_id
              /\ (NotActiveInArm(i) \/ i \in metadata.unfetched) =>
                    ~metadata.result_file[i].Validation_result

\* the rows of the output report whose result is Succeeded
SucceededRows == {i \in 1..Len(out.rows) : out.rows[i].result = SUCCEEDED}

\* C21 (as claimed): at completion of a run, fresh or resumed, the succeeded
\* count of the final summary is the number of rows of the output report
\* whose result is Succeeded.
C21_SucceededCountMatchesRows ==
    pc = "done" => succeeded = Cardinality(SucceededRows)

\* =================================================================
\* Resumed runs over a previous report whose rows name different buckets
\* =================================================================
MixedBucketPairs == {<<"src-bucket", "dest-bucket">>, <<"src-other", "dest-other">>}

\* the rows a previous report can hold for a key
MixedRows(key) ==
    {Row(pair[1], pair[2], key, size, o[1], MsgText(o[2])) :
        pair \in MixedBucketPairs, size \in Sizes,
        o \in {<<SUCCEEDED, <<"ETags match">>>>,
               <<FAILED, <<"File sizes don't match">>>>}}
MixedReports ==
    UNION {{r \in [1..n -> UNION {MixedRows(k) : k \in 1..n}] :
               \A i \in 1..n : r[i].file_name = i}
           : n \in 1..MaxMixed}

\* a run is about to be resumed from a report on disk; storage is live
InitMixed ==
    /\ pc = "idle"
    /\ env = "live"
    /\ store = NoStore
    /\ gen = 0
    /\ reader = <<>>
    /\ prior = <<>>
    /\ file_list = <<>>
    /\ src_bucket = ""
    /\ dest_bucket = ""
    /\ num_files = 0
    /\ out \in {[header |-> fieldnames, rows |-> r] : r \in MixedReports}
    /\ counter = 0
    /\ succeeded = 0
    /\ total_size = 0
    /\ calls = <<>>
    /\ last = NoLast
    /\ uncaught = NoError
    /\ integrity = NotRun
    /\ comparator = NotRun
    /\ indexd = NotRun
    /\ metadata = NotRun
    /\ manifest = NotRun

SpecMixed == InitMixed /\ [][NextFixed]_vars

\* C22 (as claimed): in a resumed run every re-checked item is looked up in
\* the destination bucket its own row of the previous report names, and its
\* new row carries the src_bucket and dest_bucket of that row, whatever
\* buckets the other rows name.
C22_OwnBuckets ==
    (Resumed /\ Checked /\ pc \in {"checking", "done"}) =>
        LET own == prior[counter]
        IN  /\ last.exec.calls[1] = <<"head_object", own.dest_bucket, own.file_name>>
            /\ LastRow.src_bucket = own.src_bucket
            /\ LastRow.dest_bucket = own.dest_bucket

====
